---- MODULE Spec2Model ----
(***************************************************************************)
(* Model of music21/analysis/reduceChords.py (class ChordReducer).         *)
(*                                                                         *)
(* Time is counted in ticks of 1/48 of a quarter length, so that the four  *)
(* syncopation markers of the smoothing pass (0.25, 0.125, 1/3 and 1/16 of *)
(* a quarter) are whole numbers of ticks and all arithmetic is exact.      *)
(* Weights are counted in units of 1/(48*16*10) of a quarter length:       *)
(* ticks * sixteenths of beat strength * tenths of consonance score.       *)
(***************************************************************************)
EXTENDS Integers, Sequences, FiniteSets, TLC

VARIABLES
    pc,                 \* position of the current call / loop
    \* ---- reduceMeasureToNChords (one call) ----
    measureObj,         \* the measure handed to reduceMeasureToNChords
    numChords,          \* its numChords argument, as passed (the clamped value is derived)
    weightAlgorithm,    \* its weightAlgorithm argument
    trimBelow,          \* its trimBelow argument, <<numerator, denominator>>
    chordWeights,       \* the weight table computed for the measure
    sortedChords,       \* the keys ranked by descending weight
    trimmedMaxChords,   \* the keys that survive numChords and trimBelow
    mObj,               \* the stream the call returns
    \* ---- _buildOutputMeasure (one call) ----
    inputMeasureReduction, \* the reduced measure handed to _buildOutputMeasure
    barTs,              \* the time-signature context of its source measure
    \* ---- multiPartReduction ----
    inputStream,        \* measure index -> source measure
    lenMeasures,        \* len(gobcM)
    maxChords,          \* the maxChords argument
    closedPosition,     \* the closedPosition argument
    forceOctave,        \* the forceOctave argument (NoOctave for False, or an octave number)
    i,                  \* the loop index
    outputStream,       \* the output part: a sequence of output measures
    lastPitchedObject,  \* FALSE (None) or TRUE: the last event of the last output measure
    lastTimeSignature   \* "None" or the time signature carried forward

vars == <<pc, measureObj, numChords, weightAlgorithm, trimBelow, chordWeights,
          sortedChords, trimmedMaxChords, mObj, inputMeasureReduction, barTs,
          inputStream, lenMeasures, maxChords, closedPosition, forceOctave, i,
          outputStream, lastPitchedObject, lastTimeSignature>>

reduceVars == <<measureObj, numChords, weightAlgorithm, trimBelow, chordWeights,
                sortedChords, trimmedMaxChords, mObj>>
buildVars == <<inputMeasureReduction, barTs>>
pieceVars == <<inputStream, lenMeasures, maxChords, closedPosition, forceOctave, i,
               outputStream, lastPitchedObject, lastTimeSignature>>

-----------------------------------------------------------------------------
(* Bounds of the model *)

MaxEvents == 3        \* events per measure in the single-call specifications
MaxChords == 2        \* largest numChords / maxChords argument tried
MaxMeasures == 2      \* len(gobcM) of the pieces tried

(* Units *)
Quarter == 48                  \* ticks per quarter length
BeatUnit == 16                 \* beat strength 1.0, in sixteenths
ConsonanceUnit == 10           \* consonance score 1.0, in tenths
WeightUnit == Quarter * BeatUnit * ConsonanceUnit   \* weight 1.0

-----------------------------------------------------------------------------
(* Sequence helpers *)

Range(s) == {s[k] : k \in DOMAIN s}

RECURSIVE SumSeq(_)
SumSeq(s) == IF s = <<>> THEN 0 ELSE Head(s) + SumSeq(Tail(s))

Injections(S) == {f \in [1..Cardinality(S) -> S] : \A a, b \in DOMAIN f : f[a] = f[b] => a = b}

-----------------------------------------------------------------------------
(* Events: chords and rests.  A chord's pitches are MIDI numbers in the    *)
(* order the chord holds them; a rest has no pitches.                      *)

Event(pitches, offset, quarterLength, tie) ==
    [pitches |-> pitches, offset |-> offset, quarterLength |-> quarterLength, tie |-> tie]

isChord(c) == c.pitches # <<>>
isRest(c) == c.pitches = <<>>

pitchClass(p) == p % 12

End(c) == c.offset + c.quarterLength

\* tuple(set([x.pitchClass for x in c.pitches])): the pitch classes of the chord.
\* (For the sonorities used here no two pitch classes collide in the hash table,
\* so the tuple is a function of the set alone.)
PitchClassKey(c) == {pitchClass(c.pitches[k]) : k \in DOMAIN c.pitches}

\* measureObj.notes / measureObj.flat.notes: the pitched events, rests left out.
Notes(m) == SelectSeq(m, isChord)

\* inputMeasure.flat.notesAndRests
NotesAndRests(m) == m

\* The sonorities of testMeasureStream1
CMajor == <<60, 64, 67, 72>>         \* C4 E4 G4 C5
CMajorFlipped == <<64, 60, 67, 72>>  \* the same pitches, E4 first
Dissonant == <<60, 64, 65, 71>>      \* C4 E4 F4 B4
NoPitches == <<>>

-----------------------------------------------------------------------------
(* The collaborators of the weighting policies *)

\* c.beatStrength: the metrical weight of the event's position, in sixteenths:
\* 1.0 on the downbeat, 0.5 on the half bar, 0.25 on the other quarters,
\* 0.125 on the eighths and 0.0625 elsewhere (the default 4/4 accent pattern).
beatStrength(c) ==
    LET o == c.offset % (4 * Quarter)
    IN  IF o = 0 THEN BeatUnit
        ELSE IF o = 2 * Quarter THEN BeatUnit \div 2
        ELSE IF o % Quarter = 0 THEN BeatUnit \div 4
        ELSE IF o % (Quarter \div 2) = 0 THEN BeatUnit \div 8
        ELSE BeatUnit \div 16

\* c.isConsonant(): a single pitch class, a consonant dyad, or a major or
\* minor triad whose bass is not its fifth.
isConsonant(c) ==
    LET pcs == PitchClassKey(c)
        bass == pitchClass(c.pitches[1])
        triadOn(r, third) == pcs = {r, (r + third) % 12, (r + 7) % 12}
    IN  CASE Cardinality(pcs) = 1 -> TRUE
          [] Cardinality(pcs) = 2 ->
                \E a, b \in pcs : a # b /\ ((b - a) % 12) \in {3, 4, 7, 8, 9}
          [] Cardinality(pcs) = 3 ->
                \E r \in pcs : (triadOn(r, 3) \/ triadOn(r, 4)) /\ bass # (r + 7) % 12
          [] OTHER -> FALSE

-----------------------------------------------------------------------------
(* The weighting policies.  pos and n are self.positionInMeasure and       *)
(* self.numberOfElementsInMeasure (zero-based position, number of events). *)

quarterLengthOnly(c, pos, n) == c.quarterLength * BeatUnit * ConsonanceUnit

quarterLengthBeatStrength(c, pos, n) == c.quarterLength * beatStrength(c) * ConsonanceUnit

quarterLengthBeatStrengthMeasurePosition(c, pos, n) ==
    IF pos = n - 1
    THEN c.quarterLength * BeatUnit * ConsonanceUnit
    ELSE quarterLengthBeatStrength(c, pos, n)

\* Mutant of consonanceScore: dissonance is not penalised
consonanceScoreIgnored(c) == ConsonanceUnit

\* consonanceScore = 1.0 if c.isConsonant() else 0.1
consonanceScore(c) == IF isConsonant(c) THEN ConsonanceUnit ELSE ConsonanceUnit \div 10

qlbsmpConsonance(c, pos, n) ==
    IF pos = n - 1
    THEN c.quarterLength * BeatUnit * consonanceScore(c)
    ELSE (quarterLengthBeatStrengthMeasurePosition(c, pos, n) \div ConsonanceUnit)
             * consonanceScore(c)

WeightAlgorithms ==
    {"None", "quarterLengthOnly", "quarterLengthBeatStrength",
     "quarterLengthBeatStrengthMeasurePosition", "qlbsmpConsonance"}

\* weightAlgorithm(c), with None standing for quarterLengthOnly
ApplyWeightAlgorithm(alg, c, pos, n) ==
    CASE alg = "quarterLengthBeatStrength" -> quarterLengthBeatStrength(c, pos, n)
      [] alg = "quarterLengthBeatStrengthMeasurePosition" ->
            quarterLengthBeatStrengthMeasurePosition(c, pos, n)
      [] alg = "qlbsmpConsonance" -> qlbsmpConsonance(c, pos, n)
      [] OTHER -> quarterLengthOnly(c, pos, n)

\* computeMeasureChordWeights: presentPCs, a table from pitch-class key to the
\* sum of the weights of the events with that key.
computeMeasureChordWeights(notes, alg) ==
    LET n == Len(notes)
        keys == {PitchClassKey(notes[k]) : k \in 1..n}
        w(k) == ApplyWeightAlgorithm(alg, notes[k], k - 1, n)
        RECURSIVE total(_, _)
        total(key, k) ==
            IF k > n THEN 0
            ELSE (IF PitchClassKey(notes[k]) = key THEN w(k) ELSE 0) + total(key, k + 1)
    IN  [key \in keys |-> total(key, 1)]

-----------------------------------------------------------------------------
(* reduceMeasureToNChords *)

\* sorted(chordWeights, key=chordWeights.get, reverse=True): the keys by
\* descending weight.  Keys of equal weight keep the order in which the
\* dictionary yields them, which the language does not fix: every ranking by
\* descending weight is a possible outcome.
SortedChords(weights) ==
    {s \in Injections(DOMAIN weights) :
        \A a, b \in DOMAIN s : a < b => weights[s[a]] >= weights[s[b]]}

\* numChords clamped to the number of keys
ClampNumChords(n, weights) ==
    IF n > Cardinality(DOMAIN weights) THEN Cardinality(DOMAIN weights) ELSE n

\* maxNChords = sortedChords[:numChords]
MaxNChords(sorted, n, weights) == SubSeq(sorted, 1, ClampNumChords(n, weights))

\* Mutant of AboveTrim: the comparison is turned around
AboveTrimReversed(w, maxChordWeight, trim) == w * trim[2] <= maxChordWeight * trim[1]

\* chordWeights[pcTuples] >= maxChordWeight * trimBelow
AboveTrim(w, maxChordWeight, trim) == w * trim[2] >= maxChordWeight * trim[1]

\* trimmedMaxChords: the candidates up to the first one below the threshold
TrimmedMaxChords(sorted, n, weights, trim) ==
    LET maxN == MaxNChords(sorted, n, weights)
        maxChordWeight == weights[maxN[1]]
        RECURSIVE walk(_)
        walk(k) ==
            IF k > Len(maxN) THEN <<>>
            ELSE IF AboveTrim(weights[maxN[k]], maxChordWeight, trim)
                 THEN <<maxN[k]>> \o walk(k + 1)
                 ELSE <<>>
    IN  walk(1)

\* mObj.duration.quarterLength: the length of the measure being reduced
StreamDuration(m) == IF m = <<>> THEN 0 ELSE End(m[Len(m)])

\* Mutant of RestMeasure: the rest keeps the default length of a new Rest
RestMeasureDefaultLength(m) == <<Event(NoPitches, 0, Quarter, "None")>>

\* The all-rest return: one rest of the stream's duration, inserted at offset 0
RestMeasure(m) == <<Event(NoPitches, 0, StreamDuration(m), "None")>>

\* currentGreedyChord.quarterLength = currentGreedyChordNewLength
CloseGreedyChord(out, newLength) ==
    [out EXCEPT ![Len(out)].quarterLength = newLength]

\* p in trimmedMaxChords and p != currentGreedyChordPCs
KeepsChord(p, trimmed, st) == p \in Range(trimmed) /\ (~st.open \/ p # st.pcs)

\* One pass of the greedy loop body for event c.  st.out holds the events
\* still in the stream, the last of them being currentGreedyChord when st.open.
GreedyStep(c, trimmed, st) ==
    LET p == PitchClassKey(c)
    IN  IF KeepsChord(p, trimmed, st)
        THEN LET first == ~st.open /\ c.offset # 0
                 len0 == IF first THEN c.offset
                         ELSE IF st.open THEN 0 ELSE st.newLength
                 kept == [c EXCEPT !.offset = IF first THEN 0 ELSE c.offset,
                                   !.tie = "None"]
                 prev == IF st.open THEN CloseGreedyChord(st.out, st.newLength)
                         ELSE st.out
             IN  [out |-> Append(prev, kept), open |-> TRUE, pcs |-> p,
                  newLength |-> len0 + c.quarterLength]
        ELSE [st EXCEPT !.newLength = st.newLength + c.quarterLength]

\* The greedy loop over the pitched events, then the closing assignment.
\* Every pitched event is visited, also after an earlier one was removed from
\* the stream.  (The loop state is bound as the element of a singleton set:
\* it is computed once per pass.)
GreedyMerge(notes, trimmed) ==
    LET RECURSIVE loop(_, _)
        loop(k, st) ==
            IF k > Len(notes) THEN st
            ELSE loop(k + 1, CHOOSE next \in
                                {GreedyStep(notes[k], trimmed, s) : s \in {st}} : TRUE)
    IN  CHOOSE merged \in
            {IF st.open THEN CloseGreedyChord(st.out, st.newLength) ELSE st.out :
                st \in {loop(1, [out |-> <<>>, open |-> FALSE, pcs |-> {},
                                  newLength |-> 0])}} : TRUE

\* round(x, 3) for x = ticks / 48, in thousandths (halves rounded up)
Round3(ticks) == (2 * 1000 * ticks + Quarter) \div (2 * Quarter)

\* [0.250, 0.125, 0.333, 0.063, 0.062], in thousandths
SyncopMarkers == {250, 125, 333, 63, 62}

\* cOffsetSyncop = cOffsetCurrent - int(cOffsetCurrent)
OffsetSyncop(c) == c.offset % Quarter

\* round(cOffsetSyncop, 3) in [0.250, 0.125, 0.333, 0.063, 0.062]
IsSyncopated(c) == Round3(OffsetSyncop(c)) \in SyncopMarkers

\* Mutant of EvenStep: the moved event does not get the syncopation back
EvenStepLosesSyncop(m, k) ==
    IF IsSyncopated(m[k])
    THEN LET syncop == OffsetSyncop(m[k])
         IN  [m EXCEPT ![k - 1].quarterLength = @ - syncop,
                       ![k].offset = @ - syncop]
    ELSE m

\* The body of the smoothing loop for position k (k >= 2, one-based)
EvenStep(m, k) ==
    IF IsSyncopated(m[k])
    THEN LET syncop == OffsetSyncop(m[k])
         IN  [m EXCEPT ![k - 1].quarterLength = @ - syncop,
                       ![k].offset = @ - syncop,
                       ![k].quarterLength = @ + syncop]
    ELSE m

\* "even chord lengths": for i in range(1, len(mObj))
EvenChordLengths(m) ==
    LET RECURSIVE loop(_, _)
        loop(k, cur) ==
            IF k > Len(m) THEN cur
            ELSE loop(k + 1, CHOOSE next \in {EvenStep(c, k) : c \in {cur}} : TRUE)
    IN  loop(2, m)

\* reduceMeasureToNChords for one ranking `sorted` of the weight table
ReduceWith(measure, sorted, n, weights, trim) ==
    IF DOMAIN weights = {} \/ ClampNumChords(n, weights) = 0
    THEN RestMeasure(measure)
    ELSE EvenChordLengths(
             GreedyMerge(Notes(measure), TrimmedMaxChords(sorted, n, weights, trim)))

\* The streams reduceMeasureToNChords can return
reduceMeasureToNChords(measure, n, alg, trim) ==
    UNION {{ReduceWith(measure, s, n, weights, trim) : s \in SortedChords(weights)} :
              weights \in {computeMeasureChordWeights(Notes(measure), alg)}}

-----------------------------------------------------------------------------
(* Inputs of the single-call specifications *)

\* Event lengths tried: 1/16, 1/4, 1/3 and 1 quarter
Durations == {3, 12, 16, Quarter}

\* trimBelow values tried: the default 0.25, the 0.3 of multiPartReduction, 1.0
TrimBelows == {<<1, 4>>, <<3, 10>>, <<1, 1>>}

ReduceSonorities == {CMajor, Dissonant, NoPitches}

\* A measure whose events follow one another from offset 0: shape[k] is
\* <<pitches, quarterLength>> of the k-th event.
RECURSIVE Contiguous(_, _)
Contiguous(shape, offset) ==
    IF shape = <<>> THEN <<>>
    ELSE <<Event(Head(shape)[1], offset, Head(shape)[2], "None")>>
             \o Contiguous(Tail(shape), offset + Head(shape)[2])

Measures(sonorities, maxLen) ==
    {Contiguous(shape, 0) :
        shape \in UNION {[1..n -> sonorities \X Durations] : n \in 1..maxLen}}

\* forceOctave=False
NoOctave == -1

NoPiece ==
    /\ inputStream = <<>>
    /\ lenMeasures = 0
    /\ maxChords = 0
    /\ closedPosition = FALSE
    /\ forceOctave = NoOctave
    /\ i = 0
    /\ outputStream = <<>>
    /\ lastPitchedObject = FALSE
    /\ lastTimeSignature = "None"

NoBuild ==
    /\ inputMeasureReduction = <<>>
    /\ barTs = "None"

-----------------------------------------------------------------------------
(* SpecReduce: one call of reduceMeasureToNChords, in the steps of its body *)

\* testMeasureStream1(): C major for 2.0, the dissonance for 1.0, C major for 1.0
testMeasureStream1 ==
    Contiguous(<<<<CMajor, 2 * Quarter>>, <<Dissonant, Quarter>>, <<CMajor, Quarter>>>>, 0)

\* The call of the doctest: reduceMeasureToNChords(s, 3,
\* weightAlgorithm=cr.qlbsmpConsonance, trimBelow=0.3)
DoctestCall ==
    /\ measureObj = testMeasureStream1
    /\ numChords = 3
    /\ weightAlgorithm = "qlbsmpConsonance"
    /\ trimBelow = <<3, 10>>

InitReduce ==
    /\ pc = "weights"
    /\ \/ /\ measureObj \in Measures(ReduceSonorities, MaxEvents)
          /\ numChords \in 1..MaxChords
          /\ weightAlgorithm \in WeightAlgorithms \ {"quarterLengthOnly"}
          /\ trimBelow \in TrimBelows
       \/ DoctestCall
    /\ chordWeights = <<>>
    /\ sortedChords = <<>>
    /\ trimmedMaxChords = <<>>
    /\ mObj = Notes(measureObj)
    /\ NoBuild
    /\ NoPiece

\* lines 295-301: mObj and its weight table
ComputeWeights ==
    /\ pc = "weights"
    /\ chordWeights' = computeMeasureChordWeights(mObj, weightAlgorithm)
    /\ pc' = "select"
    /\ UNCHANGED <<measureObj, numChords, weightAlgorithm, trimBelow, sortedChords,
                   trimmedMaxChords, mObj, buildVars, pieceVars>>

\* lines 303-314: no candidate, so the measure becomes one rest
ReturnRest ==
    /\ pc = "select"
    /\ ClampNumChords(numChords, chordWeights) = 0
    /\ mObj' = RestMeasure(measureObj)
    /\ pc' = "done"
    /\ UNCHANGED <<measureObj, numChords, weightAlgorithm, trimBelow, chordWeights, sortedChords,
                   trimmedMaxChords, buildVars, pieceVars>>

\* lines 303-323: clamp numChords, rank the keys, trim the candidates
SelectChords ==
    /\ pc = "select"
    /\ ClampNumChords(numChords, chordWeights) > 0
    /\ \E s \in SortedChords(chordWeights) :
          /\ sortedChords' = s
          /\ trimmedMaxChords' = TrimmedMaxChords(s, numChords, chordWeights, trimBelow)
    /\ pc' = "merge"
    /\ UNCHANGED <<measureObj, numChords, weightAlgorithm, trimBelow, chordWeights, mObj,
                   buildVars, pieceVars>>

\* lines 325-353: the greedy merge
Merge ==
    /\ pc = "merge"
    /\ mObj' = GreedyMerge(mObj, trimmedMaxChords)
    /\ pc' = "even"
    /\ UNCHANGED <<measureObj, numChords, weightAlgorithm, trimBelow, chordWeights,
                   sortedChords, trimmedMaxChords, buildVars, pieceVars>>

\* lines 355-366: the smoothing pass and the return
Even ==
    /\ pc = "even"
    /\ mObj' = EvenChordLengths(mObj)
    /\ pc' = "done"
    /\ UNCHANGED <<measureObj, numChords, weightAlgorithm, trimBelow, chordWeights,
                   sortedChords, trimmedMaxChords, buildVars, pieceVars>>

NextReduce == ComputeWeights \/ ReturnRest \/ SelectChords \/ Merge \/ Even

SpecReduce == InitReduce /\ [][NextReduce]_vars

-----------------------------------------------------------------------------
(* _buildOutputMeasure *)

TimeSignatures == {"4/4", "3/4"}

\* tsContext.barDuration.quarterLength
barDuration(ts) == IF ts = "4/4" THEN 4 * Quarter ELSE 3 * Quarter

\* A source measure: its events and the time signature that governs it
\* ("None" when no time signature is in its context).
SourceMeasure(events, ts) == [events |-> events, ts |-> ts]

\* inputMeasure.parts[0].getContextByClass('TimeSignature')
tsContext(inputMeasure) == inputMeasure.ts

\* inputMeasure.parts[0].getElementsByClass('Measure')[0].timeSignature
sourceMeasureTs(inputMeasure) == inputMeasure.ts

\* The pitches of a set, ascending
RECURSIVE Ascending(_)
Ascending(S) ==
    IF S = {} THEN <<>>
    ELSE LET lo == CHOOSE x \in S : \A y \in S : x <= y
         IN  <<lo>> \o Ascending(S \ {lo})

\* cElCopy.closedPosition(forceOctave=..., inPlace=True) followed by
\* removeRedundantPitches(inPlace=True): every pitch folded into the octave
\* above the bass (the bass moved to octave forceOctave when one is given),
\* ascending, duplicates dropped.
closedPositionPitches(pitches, force) ==
    LET newBass(bass) == IF force = NoOctave THEN bass ELSE 12 * (force + 1) + (bass % 12)
    IN  CHOOSE closed \in
            {Ascending({newBass(bass) + ((x - bass) % 12) : x \in S}) :
                S \in {Range(pitches)},
                bass \in {x \in Range(pitches) : \A y \in Range(pitches) : x <= y}} : TRUE

\* lines 76-86: the copy of an event, voiced when closedPosition is asked for
CopyOf(cEl, closed, force) ==
    IF isChord(cEl) /\ closed # FALSE
    THEN [cEl EXCEPT !.pitches = closedPositionPitches(cEl.pitches, force)]
    ELSE cEl

\* round(x, 6) != 0.0 for x = ticks / 48: in millionths, halves away from zero
Round6(ticks) ==
    IF ticks >= 0 THEN (2 * 1000000 * ticks + Quarter) \div (2 * Quarter)
    ELSE 0 - ((2 * 1000000 * (0 - ticks) + Quarter) \div (2 * Quarter))

\* Mutant of ExtendLast: the length is left as it was
ExtendLastNot(out, amount) == out

\* cLast.quarterLength += amount
ExtendLast(out, amount) ==
    [out EXCEPT ![Len(out)].quarterLength = @ + amount]

\* lines 87-93, one pass of the loop: the previous copy is extended over the
\* gap before cEl, then the copy of cEl becomes cLast.  (The state and the
\* copy are bound as elements of singleton sets: each is computed once.)
ExtendStep(st, cEl, closed, force) ==
    CHOOSE next \in
        {[out |-> Append(IF s.out # <<>> /\ Round6(cEl.offset - s.cLastEnd) # 0
                         THEN ExtendLast(s.out, cEl.offset - s.cLastEnd)
                         ELSE s.out,
                         cElCopy),
          cLastEnd |-> cEl.offset + cElCopy.quarterLength] :
            s \in {st}, cElCopy \in {CopyOf(cEl, closed, force)}} : TRUE

\* lines 73-94: copy the events in stream order, extending each copy over the
\* gap before the next event.  Returns the copies and cLastEnd.
ExtendOverGaps(reduction, closed, force) ==
    LET RECURSIVE loop(_, _)
        loop(k, st) ==
            IF k > Len(reduction) THEN st
            ELSE loop(k + 1, ExtendStep(st, reduction[k], closed, force))
    IN  loop(1, [out |-> <<>>, cLastEnd |-> 0])

\* lines 95-98: extend the last copy to the end of the bar
FillToBar(filled, ts) ==
    CHOOSE events \in
        {IF ts # "None" /\ Round6(barDuration(ts) - f.cLastEnd) # 0
         THEN ExtendLast(f.out, barDuration(ts) - f.cLastEnd)
         ELSE f.out : f \in {filled}} : TRUE

\* Mutant of firstPitched: the last event of the measure is taken instead
firstPitchedFromEnd(events) == events[Len(events)]

\* firstPitched = outputMeasure[0]
firstPitched(events) == events[1]

\* lines 103-113: the tie test.  No event is a Note (reduceMeasureToNChords
\* only returns chords and rests), so only the chord branch can hold: equal
\* numbers of pitches, equal pitch by pitch.
TieContinues(last, first) ==
    /\ isChord(last) /\ isChord(first)
    /\ Len(last.pitches) = Len(first.pitches)
    /\ \A k \in DOMAIN last.pitches : last.pitches[k] = first.pitches[k]

\* Mutant of StampsTimeSignature: every output measure is stamped
StampsAlways(sourceTs, lastTs) == TRUE

\* sourceMeasureTs != lastTimeSignature
StampsTimeSignature(sourceTs, lastTs) == sourceTs # lastTs

\* _buildOutputMeasure.  last is lastPitchedObject: <<>> for None, else <<event>>.
\* Returns the output measure, whether lastPitchedObject gets tie "start",
\* and the new lastTimeSignature; the new lastPitchedObject is the last event
\* of the output measure.
buildOutputMeasure(closed, force, idx, inputMeasure, reduction, last, lastTs) ==
    CHOOSE built \in
        {[outputMeasure |->
             [number |-> idx, events |-> events,
              timeSignature |-> IF stamp THEN sourceMeasureTs(inputMeasure) ELSE "None"],
          tieStart |-> last # <<>> /\ TieContinues(last[1], firstPitched(events)),
          lastTimeSignature |-> IF stamp THEN sourceMeasureTs(inputMeasure) ELSE lastTs] :
            events \in {FillToBar(ExtendOverGaps(reduction, closed, force),
                                  tsContext(inputMeasure))},
            stamp \in {StampsTimeSignature(sourceMeasureTs(inputMeasure), lastTs)}} : TRUE

\* lastPitchedObject: the last event of the last output measure as <<event>>,
\* <<>> when there is none
LastEventOf(stream) ==
    IF stream = <<>> THEN <<>>
    ELSE <<stream[Len(stream)].events[Len(stream[Len(stream)].events)]>>

\* outputStream after a call: lastPitchedObject.tie = tie.Tie('start') acts on
\* the last event of the previous output measure; the new measure is appended.
AppendMeasure(stream, built) ==
    LET n == Len(stream)
        tied == IF built.tieStart
                THEN [stream EXCEPT ![n].events[Len(stream[n].events)].tie = "start"]
                ELSE stream
    IN  Append(tied, built.outputMeasure)

-----------------------------------------------------------------------------
(* Claims about reduceMeasureToNChords, checked under SpecReduce *)

\* The nominal duration of a measure: the lengths of all its events, rests included
NominalDuration(m) == SumSeq([k \in DOMAIN m |-> m[k].quarterLength])

TotalLength(m) == SumSeq([k \in DOMAIN m |-> m[k].quarterLength])

AllRests(m) == \A k \in DOMAIN m : isRest(m[k])

\* The first event of the measure whose sonority is kept (0 when there is none)
FirstKept(m, trimmed) ==
    LET ks == {k \in DOMAIN m : isChord(m[k]) /\ PitchClassKey(m[k]) \in Range(trimmed)}
    IN  IF ks = {} THEN 0 ELSE CHOOSE k \in ks : \A j \in ks : k <= j

NoRestAfterFirstKept(m, trimmed) ==
    /\ FirstKept(m, trimmed) > 0
    /\ \A k \in DOMAIN m : k > FirstKept(m, trimmed) => isChord(m[k])

C2_CapRespected ==
    pc = "done" => Len(mObj) <= numChords

\* C3 as stated: for the doctest measure the weight table is (0,4,7) -> 3.0 and
\* (0,4,5,11) -> 0.1, and the call returns one C major chord at 0 of length 4.0.
C3_WorkedExample ==
    (pc = "done" /\ DoctestCall) =>
        /\ chordWeights = ({0, 4, 7} :> 3 * WeightUnit) @@ ({0, 4, 5, 11} :> WeightUnit \div 10)
        /\ mObj = <<Event(CMajor, 0, 4 * Quarter, "None")>>

\* "%2.1f" % w: the weight rounded to tenths
RoundToTenths(w) == (2 * 10 * w + WeightUnit) \div (2 * WeightUnit)

\* C3 amended: the weight table is (0,4,7) -> 3.0 and (0,4,5,11) -> 0.05
\* (which prints as 0.1 at one decimal); the second group is below
\* 3.0 * 0.3 and is trimmed, and the call returns one C major chord at offset 0
\* of length 4.0.
C3_WorkedExampleExact ==
    (pc = "done" /\ DoctestCall) =>
        /\ chordWeights = ({0, 4, 7} :> 3 * WeightUnit) @@ ({0, 4, 5, 11} :> WeightUnit \div 20)
        /\ RoundToTenths(chordWeights[{0, 4, 5, 11}]) = 1
        /\ trimmedMaxChords = <<{0, 4, 7}>>
        /\ mObj = <<Event(CMajor, 0, 4 * Quarter, "None")>>

\* C3 witness: the doctest call has returned
C3_Witness == pc = "done" /\ DoctestCall /\ Len(mObj) = 1

TrimLeq(t1, t2) == t1[1] * t2[2] <= t2[1] * t1[2]

\* C6: with the measure, the policy, the ranking and numChords fixed, every
\* threshold at least as large as trimBelow keeps a subset of the sonorities
\* kept with trimBelow, and returns no more events.
C6_TrimMonotone ==
    pc = "done" /\ DOMAIN chordWeights # {} =>
        \A t \in TrimBelows :
            TrimLeq(trimBelow, t) =>
                /\ Range(TrimmedMaxChords(sortedChords, numChords, chordWeights, t))
                       \subseteq Range(trimmedMaxChords)
                /\ Len(ReduceWith(measureObj, sortedChords, numChords, chordWeights, t))
                       <= Len(mObj)

\* C6 witness: a larger threshold keeps strictly fewer sonorities
C6_Witness ==
    /\ pc = "done" /\ DOMAIN chordWeights # {}
    /\ \E t \in TrimBelows :
          /\ TrimLeq(trimBelow, t)
          /\ Len(TrimmedMaxChords(sortedChords, numChords, chordWeights, t))
                 < Len(trimmedMaxChords)

\* C10 as stated: after the smoothing pass every returned event has a
\* strictly positive length and the offsets are strictly increasing.
C10_SmoothingWellFormed ==
    pc = "done" =>
        /\ \A k \in DOMAIN mObj : isChord(mObj[k]) => mObj[k].quarterLength > 0
        /\ \A k \in DOMAIN mObj : k > 1 => mObj[k - 1].offset < mObj[k].offset

-----------------------------------------------------------------------------
(* SpecBuild: one call of _buildOutputMeasure on a reduced measure that may  *)
(* have gaps between its events and before the end of the bar.              *)

NoReduce ==
    /\ measureObj = <<>>
    /\ numChords = 0
    /\ weightAlgorithm = "None"
    /\ trimBelow = <<1, 1>>
    /\ chordWeights = <<>>
    /\ sortedChords = <<>>
    /\ trimmedMaxChords = <<>>
    /\ mObj = <<>>

\* closedPosition, forceOctave as passed by the callers
VoicingArguments == {<<FALSE, NoOctave>>, <<TRUE, NoOctave>>, <<TRUE, 4>>}

\* An output measure already in the part: C major for a 4/4 bar
EarlierOutputMeasure ==
    [number |-> 0, events |-> <<Event(CMajor, 0, 4 * Quarter, "None")>>,
     timeSignature |-> "4/4"]

InitBuild ==
    /\ pc = "build"
    /\ inputMeasureReduction \in
           {Notes(m) : m \in Measures(ReduceSonorities, MaxEvents)} \ {<<>>}
    /\ barTs \in TimeSignatures \cup {"None"}
    /\ \E v \in VoicingArguments : closedPosition = v[1] /\ forceOctave = v[2]
    /\ outputStream \in {<<>>, <<EarlierOutputMeasure>>}
    /\ lastPitchedObject = (outputStream # <<>>)
    /\ lastTimeSignature = (IF outputStream = <<>> THEN "None" ELSE "4/4")
    /\ i = Len(outputStream)
    /\ inputStream = <<>>
    /\ lenMeasures = 0
    /\ maxChords = 0
    /\ NoReduce

BuildMeasure ==
    /\ pc = "build"
    /\ \E built \in {buildOutputMeasure(closedPosition, forceOctave, i,
                                        SourceMeasure(<<>>, barTs), inputMeasureReduction,
                                        LastEventOf(outputStream), lastTimeSignature)} :
           /\ outputStream' = AppendMeasure(outputStream, built)
           /\ lastTimeSignature' = built.lastTimeSignature
    /\ lastPitchedObject' = TRUE
    /\ pc' = "built"
    /\ UNCHANGED <<reduceVars, buildVars, inputStream, lenMeasures, maxChords,
                   closedPosition, forceOctave, i>>

NextBuild == BuildMeasure

SpecBuild == InitBuild /\ [][NextBuild]_vars

-----------------------------------------------------------------------------
(* Spec: multiPartReduction over a piece *)

GMajor == <<55, 59, 62>>      \* G3 B3 D4

\* The measures pieces are made of (each four quarters long)
PieceMeasures ==
    { testMeasureStream1,
      <<Event(CMajorFlipped, 0, 4 * Quarter, "stop")>>,
      Contiguous(<<<<CMajor, 2 * Quarter>>, <<NoPitches, 2 * Quarter>>>>, 0),
      Contiguous(<<<<NoPitches, 4 * Quarter>>>>, 0),
      Contiguous(<<<<CMajor, Quarter>>, <<NoPitches, Quarter>>, <<GMajor, 2 * Quarter>>>>, 0) }

\* A measure with no notes or rests, or no measure at all
EmptyMeasure == SourceMeasure(<<>>, "None")

isEmpty(inputMeasure) == Len(NotesAndRests(inputMeasure.events)) = 0

\* inputMeasure.chordify(): one sequence of chords and rests
chordify(inputMeasure) == inputMeasure.events

\* Pieces: at most lenMeasures measures hold notes or rests, and once a time
\* signature governs a measure, one governs every later measure.
Pieces(n) ==
    {f \in [0..n -> {EmptyMeasure} \cup
                    {SourceMeasure(e, ts) : e \in PieceMeasures,
                                            ts \in TimeSignatures \cup {"None"}}] :
        /\ Cardinality({k \in 0..n : ~isEmpty(f[k])}) <= n
        /\ \A a, b \in 0..n :
              (a < b /\ ~isEmpty(f[a]) /\ ~isEmpty(f[b]) /\ f[b].ts = "None")
                  => f[a].ts = "None"}

\* A ChordReducer has been constructed; multiPartReduction is not yet called.
Init ==
    /\ pc = "call"
    /\ NoPiece
    /\ NoBuild
    /\ NoReduce

\* lines 190-205: multiPartReduction is called on a piece; the locals are set
CallMultiPartReduction ==
    /\ pc = "call"
    /\ lenMeasures' \in 1..MaxMeasures
    /\ inputStream' \in Pieces(lenMeasures')
    /\ maxChords' \in 1..MaxChords
    /\ \E v \in VoicingArguments : closedPosition' = v[1] /\ forceOctave' = v[2]
    /\ i' = 0
    /\ outputStream' = <<>>
    /\ lastPitchedObject' = FALSE
    /\ lastTimeSignature' = "None"
    /\ pc' = "loop"
    /\ UNCHANGED <<reduceVars, buildVars>>

\* Mutant of EndsLoop: an empty measure ends the loop at index 0 too
EndsLoopAtZero(idx, inputMeasure) == isEmpty(inputMeasure)

\* lines 208-212: an empty measure ends the loop unless it is measure 0
EndsLoop(idx, inputMeasure) == isEmpty(inputMeasure) /\ idx # 0

\* lines 208-210, 235: an empty measure 0 is passed over
SkipEmptyFirst ==
    /\ pc = "loop" /\ i <= lenMeasures
    /\ isEmpty(inputStream[i]) /\ ~EndsLoop(i, inputStream[i])
    /\ i' = i + 1
    /\ UNCHANGED <<pc, reduceVars, buildVars, inputStream, lenMeasures, maxChords,
                   closedPosition, forceOctave, outputStream, lastPitchedObject,
                   lastTimeSignature>>

\* lines 208-212: break
BreakOnEmpty ==
    /\ pc = "loop" /\ i <= lenMeasures
    /\ EndsLoop(i, inputStream[i])
    /\ pc' = "finish"
    /\ UNCHANGED <<reduceVars, buildVars, pieceVars>>

\* lines 213-230, 235: reduce the measure, build the output measure, append it
ReduceAndBuild ==
    /\ pc = "loop" /\ i <= lenMeasures
    /\ ~isEmpty(inputStream[i])
    /\ \E reduction \in reduceMeasureToNChords(chordify(inputStream[i]), maxChords,
                                               "qlbsmpConsonance", <<3, 10>>) :
          \E built \in {buildOutputMeasure(closedPosition, forceOctave, i, inputStream[i],
                                           reduction, LastEventOf(outputStream),
                                           lastTimeSignature)} :
              /\ outputStream' = AppendMeasure(outputStream, built)
              /\ lastTimeSignature' = built.lastTimeSignature
    /\ lastPitchedObject' = TRUE
    /\ i' = i + 1
    /\ UNCHANGED <<pc, reduceVars, buildVars, inputStream, lenMeasures, maxChords,
                   closedPosition, forceOctave>>

\* line 206: the loop condition fails
ExitLoop ==
    /\ pc = "loop" /\ i > lenMeasures
    /\ pc' = "finish"
    /\ UNCHANGED <<reduceVars, buildVars, pieceVars>>

\* lines 236-240: the clef goes into the first output measure (an IndexError
\* when there is none); clef choice and notation layout are delegated.
Finish ==
    /\ pc = "finish"
    /\ pc' = IF outputStream = <<>> THEN "failed" ELSE "done"
    /\ UNCHANGED <<reduceVars, buildVars, pieceVars>>

Next == CallMultiPartReduction \/ SkipEmptyFirst \/ BreakOnEmpty \/ ReduceAndBuild \/ ExitLoop \/ Finish

\* The loop is sequential code: it takes its next step whenever it has one.
Spec == Init /\ [][Next]_vars /\ WF_vars(Next)

-----------------------------------------------------------------------------
(* Claim about _buildOutputMeasure, checked under SpecBuild *)

LastMeasure(stream) == stream[Len(stream)]

\* C7: the events of the output measure follow one another without gap or
\* overlap, and the last one ends at the bar duration of the source measure's
\* time signature.
C7_GapFilling ==
    pc = "built" =>
        LET ev == LastMeasure(outputStream).events
        IN  /\ \A k \in DOMAIN ev : k > 1 => End(ev[k - 1]) = ev[k].offset
            /\ barTs # "None" => End(ev[Len(ev)]) = barDuration(barTs)

\* C7 witness: the reduced measure had a gap between two events and ended
\* before the end of the bar.
C7_Witness ==
    /\ pc = "built" /\ barTs # "None"
    /\ \E k \in DOMAIN inputMeasureReduction :
          k > 1 /\ End(inputMeasureReduction[k - 1]) < inputMeasureReduction[k].offset
    /\ End(inputMeasureReduction[Len(inputMeasureReduction)]) < barDuration(barTs)

-----------------------------------------------------------------------------
(* Claims about multiPartReduction, checked under Spec *)

LastEvent(measure) == measure.events[Len(measure.events)]

\* C5 as stated: when the last event of an output measure and the first event
\* of the next are chords with the same set of pitches, the earlier one
\* carries a tie start.
C5_TieContinuity ==
    \A k \in DOMAIN outputStream : k > 1 =>
        LET last == LastEvent(outputStream[k - 1])
            first == outputStream[k].events[1]
        IN  (isChord(last) /\ isChord(first) /\ Range(last.pitches) = Range(first.pitches))
                => last.tie = "start"

\* C5 amended: when the last event of an output measure and the first event
\* of the next are chords with the same number of pitches, equal pitch by
\* pitch in order, the earlier one carries a tie start.
C5_TieContinuityInOrder ==
    \A k \in DOMAIN outputStream : k > 1 =>
        LET last == LastEvent(outputStream[k - 1])
            first == outputStream[k].events[1]
        IN  (isChord(last) /\ isChord(first) /\ last.pitches = first.pitches)
                => last.tie = "start"

\* C5 witness: two output measures meet in the same chord, and the second
\* measure holds a different chord after it.
C5_Witness ==
    /\ Len(outputStream) = 2
    /\ isChord(LastEvent(outputStream[1]))
    /\ LastEvent(outputStream[1]).pitches = outputStream[2].events[1].pitches
    /\ LastEvent(outputStream[1]).tie = "start"
    /\ Len(outputStream[2].events) = 2

\* The time signature governing the source of the k-th output measure
GoverningTs(k) == inputStream[outputStream[k].number].ts

\* The time signature carried into the assembly of the k-th output measure
CarriedTs(k) == IF k = 1 THEN "None" ELSE GoverningTs(k - 1)

\* C8: an output measure carries a time signature exactly when the one
\* governing its source differs from the one carried from the previous
\* output measure (nothing is carried into the first), it is then that
\* governing time signature, and lastTimeSignature is the one governing the
\* last assembled measure.
C8_TimeSignatureStamping ==
    /\ \A k \in DOMAIN outputStream :
          /\ (outputStream[k].timeSignature # "None") <=> (GoverningTs(k) # CarriedTs(k))
          /\ GoverningTs(k) # CarriedTs(k) => outputStream[k].timeSignature = GoverningTs(k)
          /\ (k = 1 /\ GoverningTs(k) # "None") => outputStream[k].timeSignature # "None"
    /\ outputStream # <<>> => lastTimeSignature = GoverningTs(Len(outputStream))

\* C8 witness: two measures under one time signature, the first stamped and
\* the second not.
C8_Witness ==
    /\ Len(outputStream) = 2
    /\ GoverningTs(1) = "3/4" /\ GoverningTs(2) = "3/4"
    /\ outputStream[1].timeSignature = "3/4"
    /\ outputStream[2].timeSignature = "None"

\* The index at which the loop ends: the first empty measure at an index >= 1,
\* or lenMeasures + 1
FirstEmpty ==
    LET ends == {n \in 1..lenMeasures : isEmpty(inputStream[n])} \cup {lenMeasures + 1}
    IN  CHOOSE n \in ends : \A m \in ends : n <= m

\* The indices of the non-empty measures below idx, ascending
NonEmptyBelow(idx) == Ascending({n \in 0..(idx - 1) : ~isEmpty(inputStream[n])})

C9_LoopState ==
    pc # "call" =>
    /\ i <= FirstEmpty
    /\ [k \in DOMAIN outputStream |-> outputStream[k].number] = NonEmptyBelow(i)
    /\ pc \in {"finish", "done", "failed"} => i = FirstEmpty

\* C9: the loop index only grows, the loop ends, and it ends at the first
\* empty measure with index >= 1 (an empty measure 0 is passed over); the
\* output holds one measure, in input order, for each non-empty measure
\* before that index and none for a later one.
C9_PieceLoop ==
    /\ []C9_LoopState
    /\ [][i' = i \/ i' = i + 1]_vars
    /\ <>(pc \in {"done", "failed"})

\* C9 witness: the loop was ended by an empty measure with a non-empty
\* measure still after it.
C9_Witness ==
    /\ pc = "done"
    /\ \E n \in (FirstEmpty + 1)..lenMeasures : ~isEmpty(inputStream[n])
    /\ Len(outputStream) = 1

====
